---- MODULE Spec2Model ----
(***************************************************************************)
(* BlackRoad Battery Manager (src/src/battery_manager.py).                 *)
(*                                                                         *)
(* The store is the SQLite database file: the three tables iot_devices,    *)
(* battery_readings and battery_alerts.  Every method of BatteryManager    *)
(* opens its own connection, so the callers (CLI invocations sharing the   *)
(* database file) are modelled as processes whose statements interleave.   *)
(* A step is one autocommit statement or one write transaction: SQLite     *)
(* shows other connections none or all of a transaction and admits one     *)
(* writer at a time.  Foreign keys are declared in the schema but never    *)
(* switched on (no PRAGMA foreign_keys), so they are not enforced.         *)
(*                                                                         *)
(* Percentages are integers; a timestamp is the number of clock ticks, one *)
(* tick being HoursPerTick hours; a drain rate is an integer count of      *)
(* 1/10000 %/h (round(x, 4)); an average is a count of 1/10 % (round(x,1)).*)
(* Optional values are <<>> (None) or <<v>>.  The pass-through columns     *)
(* voltage_mv, temperature_c, signal_rssi and the descriptive device       *)
(* columns carry no logic and are left out.  A reading_time is stored as   *)
(* datetime.now().isoformat() and read back with fromisoformat, which      *)
(* returns the same naive datetime, and the text order of these strings is *)
(* their time order; so the tick count stands for both forms.              *)
(*                                                                         *)
(* Specifications: Spec (two callers, one device, store failures),         *)
(* SerialSpec (one caller, two devices), FleetSpec (one caller, three      *)
(* devices), PairSpec (two callers ingesting for two devices), FairSpec    *)
(* (two callers, one device, no store failure, started calls go on) and    *)
(* ExportSpec (one caller writing, one reading with fleet_status and       *)
(* export_json).                                                           *)
(***************************************************************************)
EXTENDS Integers, Sequences, FiniteSets, TLC

\* ---- bounds of the model ------------------------------------------------
MaxReadings == 2
HoursPerTick == 7

\* the concurrent callers, the device names they register, the ids they
\* ingest for, the percentages they report and the clock's values
Procs == {"p1", "p2"}
Names == {"sensor-1"}
DeviceIds == 1..Cardinality(Names)
PctValues == {10, 15, 30, 60}
ClockValues == 0..1

\* a single caller working on a fleet of two; where the callers have
\* roles, the other one registers and ingests
Caller == "p1"
Ingester == "p2"
SerialNames == {"sensor-1", "sensor-2"}
SerialIds == 1..Cardinality(SerialNames)

\* the fleet of the three-device runs, and the percentages ingested there
FleetNames == {"sensor-1", "sensor-2", "sensor-3"}
FleetIds == 1..Cardinality(FleetNames)
FleetPcts == {15, 60}

\* the percentages ingested in the two-caller, two-device runs
PairPcts == {10, 60}

\* ---- program constants --------------------------------------------------
LOW_PCT == 30
CRITICAL_PCT == 15
DEFAULT_PCT == 100

None == <<>>
Some(v) == <<v>>

VARIABLES devices, readings, alerts, now, pc, frame, ret

vars == <<devices, readings, alerts, now, pc, frame, ret>>

\* ---- pure functions -----------------------------------------------------
Abs(n) == IF n < 0 THEN -n ELSE n

\* round() of the rational n/d (d > 0) to an integer, ties to even
RoundHalfEven(n, d) ==
  LET a == Abs(n)
      q == a \div d
      r == a % d
      m == IF 2 * r > d THEN q + 1
           ELSE IF 2 * r < d THEN q
           ELSE IF q % 2 = 0 THEN q ELSE q + 1
  IN IF n < 0 THEN -m ELSE m

StatusOfStrict(battery_pct) ==
  IF battery_pct < CRITICAL_PCT THEN "critical"
  ELSE IF battery_pct < LOW_PCT THEN "warning" ELSE "online"

\* new_status of record_reading
StatusOf(battery_pct) ==
  IF battery_pct <= CRITICAL_PCT THEN "critical"
  ELSE IF battery_pct <= LOW_PCT THEN "warning" ELSE "online"

\* the rows "WHERE device_id = ? ORDER BY reading_time DESC LIMIT 1" may
\* return: the readings of the device with the greatest reading_time
LatestReadings(rs, device_id) ==
  {i \in 1..Len(rs) :
     /\ rs[i].device_id = device_id
     /\ \A j \in 1..Len(rs) :
          rs[j].device_id = device_id => rs[j].reading_time <= rs[i].reading_time}

DrainRateFlipped(prev, ts, battery_pct) ==
  IF prev = None THEN None
  ELSE LET elapsed_h == (ts - prev[1].reading_time) * HoursPerTick
       IN IF elapsed_h > 0
          THEN Some(RoundHalfEven((battery_pct - prev[1].battery_pct) * 10000, elapsed_h))
          ELSE None

DrainRateUnguarded(prev, ts, battery_pct) ==
  IF prev = None THEN None
  ELSE LET elapsed_h == (ts - prev[1].reading_time) * HoursPerTick
           n == (prev[1].battery_pct - battery_pct) * 10000
       IN IF elapsed_h > 0 THEN Some(RoundHalfEven(n, elapsed_h))
          ELSE IF elapsed_h < 0 THEN Some(RoundHalfEven(-n, -elapsed_h))
          ELSE None

\* drain_rate of record_reading, from the prior row (None or <<row>>)
DrainRate(prev, ts, battery_pct) ==
  IF prev = None THEN None
  ELSE LET elapsed_h == (ts - prev[1].reading_time) * HoursPerTick
       IN IF elapsed_h > 0
          THEN Some(RoundHalfEven((prev[1].battery_pct - battery_pct) * 10000, elapsed_h))
          ELSE None

\* the alert rows _check_alerts inserts for one reading
AlertsForDedup(as, device_id, pct) ==
  IF \E i \in 1..Len(as) : as[i].device_id = device_id /\ ~as[i].resolved
  THEN <<>>
  ELSE IF pct <= CRITICAL_PCT
  THEN <<[device_id |-> device_id, alert_type |-> "critical",
          threshold |-> CRITICAL_PCT, current_value |-> pct, resolved |-> FALSE]>>
  ELSE IF pct <= LOW_PCT
  THEN <<[device_id |-> device_id, alert_type |-> "low_battery",
          threshold |-> LOW_PCT, current_value |-> pct, resolved |-> FALSE]>>
  ELSE <<>>

AlertsForThresholdValue(as, device_id, pct) ==
  IF pct <= CRITICAL_PCT
  THEN <<[device_id |-> device_id, alert_type |-> "critical",
          threshold |-> CRITICAL_PCT, current_value |-> CRITICAL_PCT,
          resolved |-> FALSE]>>
  ELSE IF pct <= LOW_PCT
  THEN <<[device_id |-> device_id, alert_type |-> "low_battery",
          threshold |-> LOW_PCT, current_value |-> LOW_PCT, resolved |-> FALSE]>>
  ELSE <<>>

AlertsFor(as, device_id, pct) ==
  IF pct <= CRITICAL_PCT
  THEN <<[device_id |-> device_id, alert_type |-> "critical",
          threshold |-> CRITICAL_PCT, current_value |-> pct, resolved |-> FALSE]>>
  ELSE IF pct <= LOW_PCT
  THEN <<[device_id |-> device_id, alert_type |-> "low_battery",
          threshold |-> LOW_PCT, current_value |-> pct, resolved |-> FALSE]>>
  ELSE <<>>

UpdateDeviceStale(devs, device_id, battery_pct, ts, new_status) ==
  devs

UpdateDeviceKeepStatus(devs, device_id, battery_pct, ts, new_status) ==
  [i \in 1..Len(devs) |->
     IF i = device_id
     THEN [devs[i] EXCEPT !.current_pct = battery_pct, !.last_seen = ts]
     ELSE devs[i]]

UpdateDeviceAll(devs, device_id, battery_pct, ts, new_status) ==
  [i \in 1..Len(devs) |->
     [devs[i] EXCEPT !.current_pct = battery_pct,
                     !.last_seen = ts,
                     !.status = new_status]]

\* UPDATE iot_devices SET current_pct=?, last_seen=?, status=? WHERE id=?
UpdateDevice(devs, device_id, battery_pct, ts, new_status) ==
  [i \in 1..Len(devs) |->
     IF i = device_id
     THEN [devs[i] EXCEPT !.current_pct = battery_pct,
                          !.last_seen = ts,
                          !.status = new_status]
     ELSE devs[i]]

InsertReadingReplace(rs, device_id, ts, battery_pct, drain_rate) ==
  LET row == [device_id |-> device_id, reading_time |-> ts,
              battery_pct |-> battery_pct, drain_rate |-> drain_rate]
      own == {i \in 1..Len(rs) : rs[i].device_id = device_id}
  IN IF own = {} THEN Append(rs, row)
     ELSE [i \in 1..Len(rs) |->
             IF i = CHOOSE k \in own : \A j \in own : j <= k THEN row ELSE rs[i]]

\* INSERT INTO battery_readings (device_id, reading_time, battery_pct, ...,
\* drain_rate): the new row gets the next id; device_id is not checked
\* against iot_devices (foreign keys are off)
InsertReading(rs, device_id, ts, battery_pct, drain_rate) ==
  Append(rs, [device_id |-> device_id, reading_time |-> ts,
              battery_pct |-> battery_pct, drain_rate |-> drain_rate])

\* _get_device: the row with its id (None when there is no such row)
GetDevice(devs, id) ==
  IF id \in 1..Len(devs)
  THEN [kind |-> "device", id |-> id, name |-> devs[id].name,
        current_pct |-> devs[id].current_pct,
        last_seen |-> devs[id].last_seen, status |-> devs[id].status]
  ELSE [kind |-> "none"]

\* INSERT INTO iot_devices ... VALUES (..., 100.0, ts, ...); status takes
\* the column default 'online'
NewDevice(name, ts) ==
  [name |-> name, current_pct |-> DEFAULT_PCT, last_seen |-> ts,
   status |-> "online"]

\* list_devices(): the rows with their ids, ORDER BY current_pct ASC (the
\* order of rows with equal current_pct is left to SQLite)
ListDevices(devs) ==
  LET n == Len(devs)
      perms == {f \in [1..n -> 1..n] :
                  /\ \A i, j \in 1..n : i # j => f[i] # f[j]
                  /\ \A i, j \in 1..n :
                       i < j => devs[f[i]].current_pct <= devs[f[j]].current_pct}
  IN {[i \in 1..n |->
         [id |-> f[i], name |-> devs[f[i]].name,
          current_pct |-> devs[f[i]].current_pct,
          last_seen |-> devs[f[i]].last_seen,
          status |-> devs[f[i]].status]] : f \in perms}

RECURSIVE SumPct(_)
SumPct(ds) ==
  IF ds = <<>> THEN 0 ELSE ds[1].current_pct + SumPct(Tail(ds))

IsHealthy(d) == d.current_pct >= 60
IsWarning(d) == 30 <= d.current_pct /\ d.current_pct < 60
IsLow(d) == 15 <= d.current_pct /\ d.current_pct < 30
IsCriticalByStatus(d) == d.status = "critical"
IsCriticalInclusive(d) == d.current_pct <= 15
IsCritical(d) == d.current_pct < 15

\* SELECT COUNT(*) FROM battery_alerts WHERE resolved=0
CountUnresolved(as) == Cardinality({i \in 1..Len(as) : ~as[i].resolved})

FleetSummaryRequery(ds, active) ==
  LET total == Len(devices)
  IN [kind |-> "fleet",
      total_devices |-> total,
      avg_battery_pct |-> IF total # 0
                          THEN RoundHalfEven(SumPct(ds) * 10, total) ELSE 0,
      healthy |-> Cardinality({i \in 1..Len(ds) : IsHealthy(ds[i])}),
      warning |-> Cardinality({i \in 1..Len(ds) : IsWarning(ds[i])}),
      low |-> Cardinality({i \in 1..Len(ds) : IsLow(ds[i])}),
      critical |-> Cardinality({i \in 1..Len(ds) : IsCritical(ds[i])}),
      active_alerts |-> active]

FleetSummaryTruncating(ds, active) ==
  LET total == Len(ds)
  IN [kind |-> "fleet",
      total_devices |-> total,
      avg_battery_pct |-> IF total # 0 THEN (SumPct(ds) * 10) \div total ELSE 0,
      healthy |-> Cardinality({i \in 1..Len(ds) : IsHealthy(ds[i])}),
      warning |-> Cardinality({i \in 1..Len(ds) : IsWarning(ds[i])}),
      low |-> Cardinality({i \in 1..Len(ds) : IsLow(ds[i])}),
      critical |-> Cardinality({i \in 1..Len(ds) : IsCritical(ds[i])}),
      active_alerts |-> active]

\* the dict fleet_status returns (avg_battery_pct in tenths)
FleetSummary(ds, active) ==
  LET total == Len(ds)
  IN [kind |-> "fleet",
      total_devices |-> total,
      avg_battery_pct |-> IF total # 0
                          THEN RoundHalfEven(SumPct(ds) * 10, total) ELSE 0,
      healthy |-> Cardinality({i \in 1..Len(ds) : IsHealthy(ds[i])}),
      warning |-> Cardinality({i \in 1..Len(ds) : IsWarning(ds[i])}),
      low |-> Cardinality({i \in 1..Len(ds) : IsLow(ds[i])}),
      critical |-> Cardinality({i \in 1..Len(ds) : IsCritical(ds[i])}),
      active_alerts |-> active]

\* ---- the state after construction (_init_db on a fresh file) ------------
IdleFrame == [op |-> "none"]

Init ==
  /\ devices = <<>>
  /\ readings = <<>>
  /\ alerts = <<>>
  /\ now = 0
  /\ pc = [p \in Procs |-> "idle"]
  /\ frame = [p \in Procs |-> IdleFrame]
  /\ ret = [p \in Procs |-> None]

\* the values datetime.now() may return next: the clock never runs
\* backwards, and two calls may fall on the same tick
ClockReads == {now, now + 1} \cap ClockValues

\* ---- record_reading -----------------------------------------------------
InFlightReadings ==
  Cardinality({p \in Procs : pc[p] \in {"lookup", "write"}})

Error(exc) == Some([kind |-> "error", exc |-> exc])

\* ts = datetime.now().isoformat(); drain_rate = None
RecordBegin(p, device_id, battery_pct, t) ==
  /\ pc[p] = "idle"
  /\ Len(readings) + InFlightReadings < MaxReadings
  /\ now' = t
  /\ pc' = [pc EXCEPT ![p] = "lookup"]
  /\ frame' = [frame EXCEPT ![p] =
       [op |-> "record_reading", device_id |-> device_id,
        battery_pct |-> battery_pct, ts |-> t, drain_rate |-> None,
        new_status |-> "", lastrowid |-> 0]]
  /\ UNCHANGED <<devices, readings, alerts, ret>>

\* SELECT of the prior reading (an autocommit read: no transaction is
\* open yet), then the local computation of drain_rate and new_status
RecordLookup(p) ==
  /\ pc[p] = "lookup"
  /\ LET f == frame[p]
         cand == LatestReadings(readings, f.device_id)
     IN \E prev \in (IF cand = {} THEN {None}
                     ELSE {Some([battery_pct |-> readings[i].battery_pct,
                                 reading_time |-> readings[i].reading_time]) : i \in cand}) :
          frame' = [frame EXCEPT ![p] =
            [f EXCEPT !.drain_rate = DrainRate(prev, f.ts, f.battery_pct),
                      !.new_status = StatusOf(f.battery_pct)]]
  /\ pc' = [pc EXCEPT ![p] = "write"]
  /\ UNCHANGED <<devices, readings, alerts, now, ret>>

\* the write transaction: INSERT INTO battery_readings, UPDATE iot_devices,
\* conn.commit().  Other connections see none of it or all of it.
RecordWrite(p) ==
  /\ pc[p] = "write"
  /\ LET f == frame[p]
     IN /\ readings' = InsertReading(readings, f.device_id, f.ts,
                                     f.battery_pct, f.drain_rate)
        /\ devices' = UpdateDevice(devices, f.device_id, f.battery_pct,
                                   f.ts, f.new_status)
  /\ frame' = [frame EXCEPT ![p].lastrowid = Len(readings) + 1]
  /\ pc' = [pc EXCEPT ![p] = "alert"]
  /\ UNCHANGED <<alerts, now, ret>>

\* a statement of the write transaction raises (database is locked, I/O
\* error): the with-block rolls back what was written and the exception
\* leaves record_reading
RecordWriteFail(p) ==
  /\ pc[p] = "write"
  /\ pc' = [pc EXCEPT ![p] = "raised"]
  /\ frame' = [frame EXCEPT ![p] = IdleFrame]
  /\ ret' = [ret EXCEPT ![p] = Error("OperationalError")]
  /\ UNCHANGED <<devices, readings, alerts, now>>

\* _check_alerts / _fire_alert (its own transaction), then the return
RecordCheckAlerts(p) ==
  /\ pc[p] = "alert"
  /\ LET f == frame[p]
     IN /\ alerts' = alerts \o AlertsFor(alerts, f.device_id, f.battery_pct)
        /\ ret' = [ret EXCEPT ![p] = Some(
             [kind |-> "reading", id |-> f.lastrowid, device_id |-> f.device_id,
              reading_time |-> f.ts, battery_pct |-> f.battery_pct,
              drain_rate |-> f.drain_rate])]
  /\ frame' = [frame EXCEPT ![p] = IdleFrame]
  /\ pc' = [pc EXCEPT ![p] = "done"]
  /\ UNCHANGED <<devices, readings, now>>

\* the alert INSERT raises: nothing in record_reading catches it
RecordAlertFail(p) ==
  /\ pc[p] = "alert"
  /\ AlertsFor(alerts, frame[p].device_id, frame[p].battery_pct) # <<>>
  /\ pc' = [pc EXCEPT ![p] = "raised_after_commit"]
  /\ frame' = [frame EXCEPT ![p] = IdleFrame]
  /\ ret' = [ret EXCEPT ![p] = Error("OperationalError")]
  /\ UNCHANGED <<devices, readings, alerts, now>>

\* ---- add_device ---------------------------------------------------------
\* ts = datetime.now().isoformat()
AddBegin(p, name, t) ==
  /\ pc[p] = "idle"
  /\ now' = t
  /\ pc' = [pc EXCEPT ![p] = "insert"]
  /\ frame' = [frame EXCEPT ![p] =
       [op |-> "add_device", name |-> name, ts |-> t, lastrowid |-> 0]]
  /\ UNCHANGED <<devices, readings, alerts, ret>>

NameTakenNever(devs, name) == FALSE

NameTaken(devs, name) == \E i \in 1..Len(devs) : devs[i].name = name

\* INSERT INTO iot_devices, conn.commit()
AddInsert(p) ==
  /\ pc[p] = "insert"
  /\ ~NameTaken(devices, frame[p].name)
  /\ devices' = Append(devices, NewDevice(frame[p].name, frame[p].ts))
  /\ frame' = [frame EXCEPT ![p].lastrowid = Len(devices) + 1]
  /\ pc' = [pc EXCEPT ![p] = "get"]
  /\ UNCHANGED <<readings, alerts, now, ret>>

\* the INSERT violates "name TEXT NOT NULL UNIQUE": sqlite3.IntegrityError
AddConflict(p) ==
  /\ pc[p] = "insert"
  /\ NameTaken(devices, frame[p].name)
  /\ pc' = [pc EXCEPT ![p] = "raised"]
  /\ frame' = [frame EXCEPT ![p] = IdleFrame]
  /\ ret' = [ret EXCEPT ![p] = Error("IntegrityError")]
  /\ UNCHANGED <<devices, readings, alerts, now>>

\* the INSERT or the commit raises for another reason: rollback
AddInsertFail(p) ==
  /\ pc[p] = "insert"
  /\ pc' = [pc EXCEPT ![p] = "raised"]
  /\ frame' = [frame EXCEPT ![p] = IdleFrame]
  /\ ret' = [ret EXCEPT ![p] = Error("OperationalError")]
  /\ UNCHANGED <<devices, readings, alerts, now>>

\* return self._get_device(cur.lastrowid)
AddGet(p) ==
  /\ pc[p] = "get"
  /\ ret' = [ret EXCEPT ![p] = Some(GetDevice(devices, frame[p].lastrowid))]
  /\ frame' = [frame EXCEPT ![p] = IdleFrame]
  /\ pc' = [pc EXCEPT ![p] = "done"]
  /\ UNCHANGED <<devices, readings, alerts, now>>

\* ---- fleet_status -------------------------------------------------------
\* devices = self.list_devices(); total = len(devices)
FleetList(p) ==
  /\ pc[p] = "idle"
  /\ \E ds \in ListDevices(devices) :
       frame' = [frame EXCEPT ![p] = [op |-> "fleet_status", devices |-> ds]]
  /\ pc' = [pc EXCEPT ![p] = "count"]
  /\ UNCHANGED <<devices, readings, alerts, now, ret>>

\* the COUNT(*) of unresolved alerts on a second connection, then the dict
FleetCount(p) ==
  /\ pc[p] = "count"
  /\ ret' = [ret EXCEPT ![p] =
       Some(FleetSummary(frame[p].devices, CountUnresolved(alerts)))]
  /\ frame' = [frame EXCEPT ![p] = IdleFrame]
  /\ pc' = [pc EXCEPT ![p] = "done"]
  /\ UNCHANGED <<devices, readings, alerts, now>>

\* ---- export_json --------------------------------------------------------
\* SELECT * FROM battery_alerts WHERE resolved=0 ORDER BY created_at DESC:
\* the unresolved rows with their ids; created_at has a resolution of one
\* second, so rows may tie and come in any order
UnresolvedAlerts(as) ==
  LET ids == {i \in 1..Len(as) : ~as[i].resolved}
      n == Cardinality(ids)
      orders == {f \in [1..n -> ids] : \A i, j \in 1..n : i # j => f[i] # f[j]}
  IN {[i \in 1..n |->
         [id |-> f[i], device_id |-> as[f[i]].device_id,
          alert_type |-> as[f[i]].alert_type,
          threshold |-> as[f[i]].threshold,
          current_value |-> as[f[i]].current_value,
          resolved |-> as[f[i]].resolved]] : f \in orders}

\* devices = self.list_devices()
ExportList(p) ==
  /\ pc[p] = "idle"
  /\ \E ds \in ListDevices(devices) :
       frame' = [frame EXCEPT ![p] =
         [op |-> "export_json", devices |-> ds, alerts |-> <<>>,
          exported_at |-> 0, fleet_devices |-> <<>>]]
  /\ pc' = [pc EXCEPT ![p] = "export_alerts"]
  /\ UNCHANGED <<devices, readings, alerts, now, ret>>

\* alerts = [...] on a connection of its own
ExportAlerts(p) ==
  /\ pc[p] = "export_alerts"
  /\ \E as \in UnresolvedAlerts(alerts) :
       frame' = [frame EXCEPT ![p].alerts = as]
  /\ pc' = [pc EXCEPT ![p] = "export_fleet"]
  /\ UNCHANGED <<devices, readings, alerts, now, ret>>

\* "exported_at": datetime.now().isoformat(), then self.fleet_status()
\* lists the devices again
ExportFleetList(p, t) ==
  /\ pc[p] = "export_fleet"
  /\ now' = t
  /\ \E ds \in ListDevices(devices) :
       frame' = [frame EXCEPT ![p].exported_at = t, ![p].fleet_devices = ds]
  /\ pc' = [pc EXCEPT ![p] = "export_count"]
  /\ UNCHANGED <<devices, readings, alerts, ret>>

\* fleet_status counts the unresolved alerts and returns; the payload is
\* put together and dumped to the output file
ExportWrite(p) ==
  /\ pc[p] = "export_count"
  /\ ret' = [ret EXCEPT ![p] =
       Some([kind |-> "export",
             exported_at |-> frame[p].exported_at,
             fleet_status |-> FleetSummary(frame[p].fleet_devices,
                                           CountUnresolved(alerts)),
             devices |-> frame[p].devices,
             active_alerts |-> frame[p].alerts])]
  /\ frame' = [frame EXCEPT ![p] = IdleFrame]
  /\ pc' = [pc EXCEPT ![p] = "done"]
  /\ UNCHANGED <<devices, readings, alerts, now>>

\* the caller has the result (or the exception); the process is free again
Return(p) ==
  /\ pc[p] \in {"done", "raised", "raised_after_commit"}
  /\ pc' = [pc EXCEPT ![p] = "idle"]
  /\ ret' = [ret EXCEPT ![p] = None]
  /\ UNCHANGED <<devices, readings, alerts, now, frame>>

Next ==
  \/ \E p \in Procs, d \in DeviceIds, b \in PctValues, t \in ClockReads :
       RecordBegin(p, d, b, t)
  \/ \E p \in Procs : RecordLookup(p)
  \/ \E p \in Procs : RecordWrite(p)
  \/ \E p \in Procs : RecordWriteFail(p)
  \/ \E p \in Procs : RecordCheckAlerts(p)
  \/ \E p \in Procs : RecordAlertFail(p)
  \/ \E p \in Procs, n \in Names, t \in ClockReads : AddBegin(p, n, t)
  \/ \E p \in Procs : AddInsert(p)
  \/ \E p \in Procs : AddConflict(p)
  \/ \E p \in Procs : AddInsertFail(p)
  \/ \E p \in Procs : AddGet(p)
  \/ \E p \in Procs : FleetList(p)
  \/ \E p \in Procs : FleetCount(p)
  \/ \E p \in Procs : Return(p)

Spec == Init /\ [][Next]_vars

\* one caller, one operation at a time, two device names
SerialNext ==
  \/ \E d \in SerialIds, b \in PctValues, t \in ClockReads :
       RecordBegin(Caller, d, b, t)
  \/ RecordLookup(Caller)
  \/ RecordWrite(Caller)
  \/ RecordWriteFail(Caller)
  \/ RecordCheckAlerts(Caller)
  \/ RecordAlertFail(Caller)
  \/ \E n \in SerialNames, t \in ClockReads : AddBegin(Caller, n, t)
  \/ AddInsert(Caller)
  \/ AddConflict(Caller)
  \/ AddInsertFail(Caller)
  \/ AddGet(Caller)
  \/ FleetList(Caller)
  \/ FleetCount(Caller)
  \/ Return(Caller)

SerialSpec == Init /\ [][SerialNext]_vars

\* one caller that registers and ingests, next to one that reads
\* (fleet_status, export_json)
ExportNext ==
  \/ \E d \in DeviceIds, b \in PctValues, t \in ClockReads :
       RecordBegin(Ingester, d, b, t)
  \/ RecordLookup(Ingester)
  \/ RecordWrite(Ingester)
  \/ RecordWriteFail(Ingester)
  \/ RecordCheckAlerts(Ingester)
  \/ RecordAlertFail(Ingester)
  \/ \E n \in Names, t \in ClockReads : AddBegin(Ingester, n, t)
  \/ AddInsert(Ingester)
  \/ AddConflict(Ingester)
  \/ AddInsertFail(Ingester)
  \/ AddGet(Ingester)
  \/ FleetList(Caller)
  \/ FleetCount(Caller)
  \/ ExportList(Caller)
  \/ ExportAlerts(Caller)
  \/ \E t \in ClockReads : ExportFleetList(Caller, t)
  \/ ExportWrite(Caller)
  \/ \E p \in Procs : Return(p)

ExportSpec == Init /\ [][ExportNext]_vars

\* two callers ingesting for two devices, the store never failing
PairNext ==
  \/ \E p \in Procs, d \in SerialIds, b \in PairPcts, t \in ClockReads :
       RecordBegin(p, d, b, t)
  \/ \E p \in Procs : RecordLookup(p)
  \/ \E p \in Procs : RecordWrite(p)
  \/ \E p \in Procs : RecordCheckAlerts(p)
  \/ \E n \in SerialNames, t \in ClockReads : AddBegin(Caller, n, t)
  \/ AddInsert(Caller)
  \/ AddConflict(Caller)
  \/ AddGet(Caller)
  \/ \E p \in Procs : Return(p)

PairSpec == Init /\ [][PairNext]_vars

\* two callers and one device, the store never failing, and every call
\* that has started going on to its end (a call is straight-line code)
FairNext ==
  \/ \E p \in Procs, d \in DeviceIds, b \in PctValues, t \in ClockReads :
       RecordBegin(p, d, b, t)
  \/ \E p \in Procs : RecordLookup(p)
  \/ \E p \in Procs : RecordWrite(p)
  \/ \E p \in Procs : RecordCheckAlerts(p)
  \/ \E n \in Names, t \in ClockReads : AddBegin(Caller, n, t)
  \/ AddInsert(Caller)
  \/ AddConflict(Caller)
  \/ AddGet(Caller)
  \/ \E p \in Procs : Return(p)

Proceed(p) ==
  \/ RecordLookup(p)
  \/ RecordWrite(p)
  \/ RecordCheckAlerts(p)
  \/ AddInsert(p)
  \/ AddConflict(p)
  \/ AddGet(p)

FairSpec ==
  Init /\ [][FairNext]_vars /\ \A p \in Procs : WF_vars(Proceed(p))

\* one caller and a fleet of up to three devices, the store never failing
FleetNext ==
  \/ \E d \in FleetIds, b \in FleetPcts, t \in ClockReads :
       RecordBegin(Caller, d, b, t)
  \/ RecordLookup(Caller)
  \/ RecordWrite(Caller)
  \/ RecordCheckAlerts(Caller)
  \/ \E n \in FleetNames, t \in ClockReads : AddBegin(Caller, n, t)
  \/ AddInsert(Caller)
  \/ AddConflict(Caller)
  \/ AddGet(Caller)
  \/ FleetList(Caller)
  \/ FleetCount(Caller)
  \/ Return(Caller)

FleetSpec == Init /\ [][FleetNext]_vars

\* ---- the claims ---------------------------------------------------------
Registered(device_id) == device_id \in 1..Len(devices)

Commits(p) == pc[p] = "write" /\ pc'[p] = "alert"

IsRounded(v, n, d) == 2 * Abs(v * d - n) <= d

\* C1: when record_reading(d, p) commits for an existing device d, the
\* stored device has current_pct = p and status critical iff p <= 15,
\* warning iff 15 < p <= 30, online otherwise.
C1_IngestSetsPctAndStatus ==
  [][\A p \in Procs :
       (Commits(p) /\ Registered(frame[p].device_id)) =>
         LET d == frame[p].device_id
             b == frame[p].battery_pct
         IN /\ devices'[d].current_pct = b
            /\ (devices'[d].status = "critical") <=> (b <= 15)
            /\ (devices'[d].status = "warning") <=> (15 < b /\ b <= 30)
            /\ (devices'[d].status = "online") <=> (b > 30)]_vars

C1_Witness ==
  \E p \in Procs :
    /\ pc[p] = "alert"
    /\ frame[p].battery_pct = 15
    /\ Registered(frame[p].device_id)
    /\ devices[frame[p].device_id].current_pct = 15
    /\ devices[frame[p].device_id].status = "critical"

\* C2: record_reading for a device_id that references no registered device
\* fails and writes nothing: no call gets past its write for an unknown
\* device, and no Reading or Alert row references an unknown device.
C2_UnknownDeviceRejected ==
  /\ \A p \in Procs : pc[p] = "alert" => Registered(frame[p].device_id)
  /\ \A i \in 1..Len(readings) : Registered(readings[i].device_id)
  /\ \A i \in 1..Len(alerts) : Registered(alerts[i].device_id)

\* C3: the Reading insert and the Device update of one record_reading
\* become visible in the same step or not at all: a step adds a Reading
\* of an existing device exactly when it sets that device's current_pct,
\* last_seen and status to the Reading's, and a failed write leaves both
\* tables as they were.
C3_AtomicIngest ==
  [][/\ \A d \in 1..Len(devices) :
          IF Len(readings') = Len(readings) + 1
             /\ readings'[Len(readings')].device_id = d
          THEN LET r == readings'[Len(readings')]
               IN /\ devices'[d].current_pct = r.battery_pct
                  /\ devices'[d].last_seen = r.reading_time
                  /\ \E p \in Procs :
                       Commits(p) /\ devices'[d].status = frame[p].new_status
          ELSE devices'[d] = devices[d]
     /\ \A p \in Procs :
          (pc[p] = "write" /\ pc'[p] = "raised") =>
            readings' = readings /\ devices' = devices]_vars

C3_Witness ==
  \E p \in Procs :
    /\ pc[p] = "alert"
    /\ Registered(frame[p].device_id)
    /\ readings[frame[p].lastrowid].reading_time = frame[p].ts
    /\ readings[frame[p].lastrowid].battery_pct = 10
    /\ devices[frame[p].device_id].last_seen = frame[p].ts
    /\ devices[frame[p].device_id].current_pct = 10
    /\ devices[frame[p].device_id].status = "critical"

\* C4: ingestions for the same device serialize: while one of them is
\* between its prior-reading lookup and its commit, no other ingestion for
\* that device is between its own lookup and commit.
C4_SameDeviceSerialized ==
  \A p, q \in Procs :
    (p # q /\ pc[p] = "write" /\ pc[q] = "write"
       /\ Registered(frame[p].device_id))
      => frame[p].device_id # frame[q].device_id

\* C5: every device that has a Reading has the battery_pct of its Reading
\* with the greatest reading_time as current_pct and that reading_time as
\* last_seen.
C5_CurrentPctIsLatestReading ==
  \A d \in 1..Len(devices) :
    LatestReadings(readings, d) # {} =>
      \E i \in LatestReadings(readings, d) :
        /\ devices[d].current_pct = readings[i].battery_pct
        /\ devices[d].last_seen = readings[i].reading_time

\* C6: in every reachable state every device's status is the function of
\* its current_pct: critical if <= 15, warning if <= 30, online otherwise.
C6_StatusFunctionOfPct ==
  \A d \in 1..Len(devices) :
    devices[d].status =
      IF devices[d].current_pct <= 15 THEN "critical"
      ELSE IF devices[d].current_pct <= 30 THEN "warning" ELSE "online"

C6_Witness ==
  \E d \in 1..Len(devices) :
    /\ devices[d].current_pct = 30
    /\ devices[d].status = "warning"
    /\ \E i \in 1..Len(readings) : readings[i].device_id = d

\* C7: the first Reading of a device has no drain_rate; an ingestion that
\* finds a latest prior Reading elapsed_hours > 0 before it computes
\* (prior pct - new pct) / elapsed_hours rounded to 4 decimals, positive
\* on a drop and negative on a rise, and none when elapsed_hours <= 0;
\* that value is the one persisted and the one returned.
C7_DrainRate ==
  [][/\ \A p \in Procs :
          (pc[p] = "lookup" /\ pc'[p] = "write") =>
            LET f == frame[p]
                dr == frame'[p].drain_rate
                cand == LatestReadings(readings, f.device_id)
            IN IF cand = {} THEN dr = None
               ELSE \E i \in cand :
                      LET hours == (f.ts - readings[i].reading_time) * HoursPerTick
                          drop == readings[i].battery_pct - f.battery_pct
                      IN IF hours > 0
                         THEN /\ dr # None
                              /\ IsRounded(dr[1], drop * 10000, hours)
                              /\ drop > 0 => dr[1] > 0
                              /\ drop < 0 => dr[1] < 0
                         ELSE dr = None
     /\ \A p \in Procs :
          Commits(p) =>
            /\ Len(readings') = Len(readings) + 1
            /\ readings'[Len(readings')].drain_rate = frame[p].drain_rate
     /\ \A p \in Procs :
          (pc[p] = "alert" /\ pc'[p] = "done") =>
            LET r == ret'[p][1]
            IN /\ readings[r.id].device_id = r.device_id
               /\ readings[r.id].battery_pct = r.battery_pct
               /\ readings[r.id].drain_rate = r.drain_rate
     /\ \A i \in 1..Len(readings') :
          (\A j \in 1..(i - 1) : readings'[j].device_id # readings'[i].device_id)
            => readings'[i].drain_rate = None]_vars

C7_Witness ==
  \E p \in Procs :
    /\ pc[p] = "done"
    /\ ret[p][1].kind = "reading"
    /\ ret[p][1].drain_rate # None
    /\ ret[p][1].drain_rate[1] > 0
    /\ readings[ret[p][1].id].drain_rate = ret[p][1].drain_rate
    /\ ret[p][1].id > 1

AlertsOf(as, d) == Cardinality({i \in 1..Len(as) : as[i].device_id = d})

LowReadingsOf(rs, d) ==
  Cardinality({i \in 1..Len(rs) : rs[i].device_id = d /\ rs[i].battery_pct <= 30})

\* committed ingestions of d at <= 30 whose alert is still to be written
AlertsDue(d) ==
  Cardinality({p \in Procs : /\ pc[p] = "alert"
                             /\ frame[p].device_id = d
                             /\ frame[p].battery_pct <= 30})

\* C8: a completing record_reading(d, p) appends exactly one unresolved
\* alert (critical/15 for p <= 15, low_battery/30 for 15 < p <= 30, with
\* current_value p) whatever alerts are stored already, and none for
\* p > 30; so, alert inserts that failed aside, a device has as many
\* alerts as Readings at <= 30.
C8_OneAlertPerLowReading ==
  [][/\ \A p \in Procs :
          (pc[p] = "alert" /\ pc'[p] = "done") =>
            LET d == frame[p].device_id
                b == frame[p].battery_pct
            IN alerts' =
                 IF b <= 15
                 THEN Append(alerts, [device_id |-> d, alert_type |-> "critical",
                                      threshold |-> 15, current_value |-> b,
                                      resolved |-> FALSE])
                 ELSE IF b <= 30
                 THEN Append(alerts, [device_id |-> d, alert_type |-> "low_battery",
                                      threshold |-> 30, current_value |-> b,
                                      resolved |-> FALSE])
                 ELSE alerts
     /\ (\A p \in Procs :
           pc'[p] = "raised_after_commit" => pc[p] = "raised_after_commit") =>
          \A d \in SerialIds :
            LowReadingsOf(readings, d)' - AlertsOf(alerts, d)' - AlertsDue(d)'
              = LowReadingsOf(readings, d) - AlertsOf(alerts, d) - AlertsDue(d)]_vars

C8_Witness ==
  \E i, j \in 1..Len(alerts) :
    /\ i < j
    /\ alerts[i].device_id = alerts[j].device_id
    /\ ~alerts[i].resolved
    /\ ~alerts[j].resolved
    /\ alerts[j].alert_type = "low_battery"
    /\ \A p \in Procs : pc[p] # "alert"
    /\ AlertsOf(alerts, alerts[i].device_id) = LowReadingsOf(readings, alerts[i].device_id)

\* C9: once the Reading and the Device update are committed, a failure of
\* the alert insert is not reported to the caller: record_reading never
\* ends in an exception after its commit.
C9_AlertFailureNotReported ==
  \A p \in Procs : pc[p] # "raised_after_commit"

\* C10: the four health buckets of fleet_status partition the devices it
\* listed by current_pct alone: healthy >= 60, warning [30, 60), low
\* [15, 30), critical < 15, and they add up to total_devices.
C10_BucketsPartition ==
  [][\A p \in Procs :
       (pc[p] = "count" /\ pc'[p] = "done") =>
         LET ds == frame[p].devices
             r == ret'[p][1]
             n(lo, hi) == Cardinality({i \in 1..Len(ds) :
                             lo <= ds[i].current_pct /\ ds[i].current_pct < hi})
         IN /\ r.total_devices = Len(ds)
            /\ r.healthy = n(60, 1000)
            /\ r.warning = n(30, 60)
            /\ r.low = n(15, 30)
            /\ r.critical = n(-1000, 15)
            /\ r.healthy + r.warning + r.low + r.critical = r.total_devices]_vars

C10_Witness ==
  \E p \in Procs :
    /\ pc[p] = "done"
    /\ ret[p][1].kind = "fleet"
    /\ ret[p][1].total_devices = 2
    /\ ret[p][1].low = 1
    /\ ret[p][1].critical = 1
    /\ \E d \in 1..Len(devices) :
         devices[d].current_pct = 15 /\ devices[d].status = "critical"

\* C11: fleet_status running next to ingestions and registrations reads
\* the device rows once, each row as some committed write left it (ids
\* distinct, all devices listed, current_pct, last_seen and status of a
\* row from the same registration or the same ingestion), computes
\* total_devices, the buckets and avg_battery_pct from those rows alone,
\* and reports as active_alerts the unresolved Alert rows committed at
\* the time of its count.
C11_FleetReadsConsistent ==
  [][\A p \in Procs :
       /\ (pc[p] = "idle" /\ pc'[p] = "count") =>
            LET ds == frame'[p].devices
            IN /\ Len(ds) = Len(devices)
               /\ \A i, j \in 1..Len(ds) : i # j => ds[i].id # ds[j].id
               /\ \A i \in 1..Len(ds) :
                    /\ ds[i].id \in 1..Len(devices)
                    /\ ds[i].current_pct = devices[ds[i].id].current_pct
                    /\ ds[i].last_seen = devices[ds[i].id].last_seen
                    /\ ds[i].status = devices[ds[i].id].status
                    /\ \/ /\ ds[i].current_pct = 100
                          /\ ds[i].status = "online"
                       \/ \E k \in 1..Len(readings) :
                            /\ readings[k].device_id = ds[i].id
                            /\ readings[k].battery_pct = ds[i].current_pct
                            /\ readings[k].reading_time = ds[i].last_seen
                            /\ ds[i].status = StatusOf(ds[i].current_pct)
       /\ (pc[p] = "count" /\ pc'[p] = "done") =>
            LET ds == frame[p].devices
                r == ret'[p][1]
            IN /\ r.total_devices = Len(ds)
               /\ r.healthy + r.warning + r.low + r.critical = Len(ds)
               /\ Len(ds) > 0 => IsRounded(r.avg_battery_pct, SumPct(ds) * 10, Len(ds))
               /\ r.active_alerts =
                    Cardinality({k \in 1..Len(alerts) : ~alerts[k].resolved})]_vars

\* a fleet_status that listed the device before an ingestion committed and
\* counted the alerts after it
C11_Witness ==
  \E p \in Procs :
    /\ pc[p] = "done"
    /\ ret[p][1].kind = "fleet"
    /\ ret[p][1].total_devices = 1
    /\ ret[p][1].healthy = 1
    /\ ret[p][1].active_alerts = 1
    /\ Len(readings) = 1
    /\ readings[1].device_id = 1
    /\ devices[1].current_pct = 10

\* C12: an add_device whose name is registered already when its INSERT
\* runs ends in an error and leaves devices, readings and alerts as they
\* were; and in every state the registered names are pairwise distinct,
\* two concurrent registrations of one name included.
C12_DuplicateNameRejected ==
  [][/\ \A p \in Procs :
          (/\ pc[p] = "insert"
           /\ pc'[p] # "insert"
           /\ \E i \in 1..Len(devices) : devices[i].name = frame[p].name) =>
            /\ pc'[p] = "raised"
            /\ ret'[p][1].kind = "error"
            /\ <<devices, readings, alerts>>' = <<devices, readings, alerts>>
     /\ \A i, j \in 1..Len(devices') :
          i # j => devices'[i].name # devices'[j].name]_vars

\* two registrations of the same name in flight: one has inserted its row
\* and not returned yet, the other was refused by the UNIQUE constraint
C12_Witness ==
  \E p, q \in Procs :
    /\ p # q
    /\ pc[p] = "raised"
    /\ ret[p] = Error("IntegrityError")
    /\ pc[q] = "get"
    /\ frame[q].op = "add_device"
    /\ Len(devices) = 1
    /\ devices[1].name = frame[q].name

C14_AvgIsExactMean ==
  [][\A p \in Procs :
       (pc[p] = "count" /\ pc'[p] = "done") =>
         LET ds == frame[p].devices
             r == ret'[p][1]
         IN IF ds = <<>>
            THEN /\ r.total_devices = 0
                 /\ r.avg_battery_pct = 0
                 /\ r.healthy = 0 /\ r.warning = 0
                 /\ r.low = 0 /\ r.critical = 0
            ELSE r.avg_battery_pct * Len(ds) = SumPct(ds) * 10]_vars

\* C14, amended: fleet_status of an empty store returns total_devices 0,
\* avg_battery_pct 0.0 and four zero buckets; for a non-empty fleet
\* avg_battery_pct is the mean of the listed current_pct values rounded
\* to one decimal.
C14_AvgIsRoundedMean ==
  [][\A p \in Procs :
       (pc[p] = "count" /\ pc'[p] = "done") =>
         LET ds == frame[p].devices
             r == ret'[p][1]
         IN /\ ret'[p] # None
            /\ r.kind = "fleet"
            /\ IF ds = <<>>
               THEN /\ r.total_devices = 0
                    /\ r.avg_battery_pct = 0
                    /\ r.healthy = 0 /\ r.warning = 0
                    /\ r.low = 0 /\ r.critical = 0
               ELSE /\ 2 * Abs(r.avg_battery_pct * Len(ds) - SumPct(ds) * 10) <= Len(ds)
                    /\ (SumPct(ds) * 10) % Len(ds) = 0 =>
                         r.avg_battery_pct * Len(ds) = SumPct(ds) * 10]_vars

\* three devices at 100, 100 and 15: the mean is 71.666..., reported 71.7
C14_Witness ==
  \E p \in Procs :
    /\ pc[p] = "done"
    /\ ret[p][1].kind = "fleet"
    /\ ret[p][1].total_devices = 3
    /\ ret[p][1].avg_battery_pct = 717
    /\ Len(devices) = 3
    /\ devices[1].current_pct + devices[2].current_pct + devices[3].current_pct = 215

\* C15: Readings and Alerts are append-only: every step of add_device,
\* record_reading, fleet_status (with its list_devices) and export_json
\* leaves each stored Reading and Alert row as it is, resolved flag
\* included, and only appends; the Readings grow by exactly one row at
\* the commit of a record_reading and at no other step, so a call that
\* returns has added one row.
C15_AppendOnly ==
  [][/\ Len(readings') >= Len(readings)
     /\ \A i \in 1..Len(readings) : readings'[i] = readings[i]
     /\ Len(alerts') >= Len(alerts)
     /\ \A i \in 1..Len(alerts) : alerts'[i] = alerts[i]
     /\ \A i \in 1..Len(alerts') : ~alerts'[i].resolved
     /\ Len(readings') - Len(readings) = Cardinality({p \in Procs : Commits(p)})
     /\ \A p \in Procs :
          (pc'[p] = "done" /\ pc[p] # "done" /\ frame[p].op = "record_reading") =>
            /\ pc[p] = "alert"
            /\ frame[p].lastrowid \in 1..Len(readings)
            /\ readings[frame[p].lastrowid].device_id = frame[p].device_id
            /\ readings[frame[p].lastrowid].battery_pct = frame[p].battery_pct
            /\ readings[frame[p].lastrowid].reading_time = frame[p].ts
            /\ ret'[p][1].id = frame[p].lastrowid]_vars

\* two Readings and their two Alerts stored, and an export that read the
\* alerts when there was one
C15_Witness ==
  /\ Len(readings) = 2
  /\ Len(alerts) = 2
  /\ readings[1].device_id = readings[2].device_id
  /\ pc[Caller] = "done"
  /\ ret[Caller][1].kind = "export"
  /\ Len(ret[Caller][1].active_alerts) = 1
  /\ pc[Ingester] = "done"
  /\ ret[Ingester][1].kind = "reading"
  /\ ret[Ingester][1].id = 2

\* C16: the commit of record_reading(d, p) sets current_pct, last_seen and
\* status of device d and leaves every other column of d and every other
\* device row as it was; the drain_rate the call computes is what the same
\* lookup gives on d's own Readings alone; and a step of one call leaves
\* the other call's local values alone.
C16_IngestTouchesOwnDeviceOnly ==
  [][\A p \in Procs :
       /\ Commits(p) =>
            LET f == frame[p]
            IN devices' =
                 [i \in 1..Len(devices) |->
                    IF i = f.device_id
                    THEN [devices[i] EXCEPT !.current_pct = f.battery_pct,
                                            !.last_seen = f.ts,
                                            !.status = frame'[p].new_status]
                    ELSE devices[i]]
       /\ (pc[p] = "lookup" /\ pc'[p] = "write") =>
            LET f == frame[p]
                own == SelectSeq(readings, LAMBDA r : r.device_id = f.device_id)
                last == {i \in 1..Len(own) :
                           \A j \in 1..Len(own) :
                             own[j].reading_time <= own[i].reading_time}
            IN frame'[p].drain_rate \in
                 IF last = {} THEN {None}
                 ELSE {DrainRate(<<own[i]>>, f.ts, f.battery_pct) : i \in last}
       /\ pc'[p] = pc[p] => frame'[p] = frame[p]]_vars

\* a Reading of device 2 is stored, then device 1 gets its first Reading:
\* no drain_rate, device 2 still as its own Reading left it
C16_Witness ==
  /\ Len(devices) = 2
  /\ Len(readings) = 2
  /\ readings[1].device_id = 2
  /\ readings[2].device_id = 1
  /\ readings[1].reading_time < readings[2].reading_time
  /\ readings[1].battery_pct # readings[2].battery_pct
  /\ readings[2].drain_rate = None
  /\ devices[1].current_pct = readings[2].battery_pct
  /\ devices[1].last_seen = readings[2].reading_time
  /\ devices[2].current_pct = readings[1].battery_pct
  /\ devices[2].last_seen = readings[1].reading_time
  /\ devices[1].name # devices[2].name

ReadingsAt(d, v) ==
  Cardinality({i \in 1..Len(readings) :
                 readings[i].device_id = d /\ readings[i].battery_pct = v})

AlertsAt(d, v) ==
  Cardinality({i \in 1..Len(alerts) :
                 alerts[i].device_id = d /\ alerts[i].current_value = v})

\* C17: with fair scheduling and a store that does not fail, a device and
\* percentage never have more Alerts than committed Readings, only
\* Readings at <= 30 have Alerts at all, and the k-th committed Reading
\* of a device at a percentage <= 30 is eventually followed by the k-th
\* Alert for that device and percentage: one Alert per such Reading,
\* written after the commit.
C17_AlertFollowsCommit ==
  /\ [](\A d \in DeviceIds : \A v \in PctValues :
          /\ AlertsAt(d, v) <= ReadingsAt(d, v)
          /\ v > 30 => AlertsAt(d, v) = 0)
  /\ [](\A i \in 1..Len(alerts) :
          alerts[i].device_id \in DeviceIds /\ alerts[i].current_value \in PctValues)
  /\ \A d \in DeviceIds : \A v \in PctValues : \A k \in 1..(MaxReadings + 1) :
       (v <= 30 /\ ReadingsAt(d, v) >= k) ~> (AlertsAt(d, v) >= k)

\* the Reading is committed and the device shows critical, the alert is
\* not written yet
C17_Witness ==
  \E p \in Procs :
    /\ pc[p] = "alert"
    /\ Registered(frame[p].device_id)
    /\ devices[frame[p].device_id].status = "critical"
    /\ readings[frame[p].lastrowid].battery_pct = 10
    /\ AlertsAt(frame[p].device_id, 10) = 0
    /\ alerts = <<>>

StatusCritical == {d \in 1..Len(devices) : devices[d].status = "critical"}

C19_ExportConsistent ==
  \A p \in Procs :
    (pc[p] = "done" /\ ret[p][1].kind = "export") =>
      LET doc == ret[p][1]
          ds == doc.devices
          n(lo, hi) == Cardinality({i \in 1..Len(ds) :
                          lo <= ds[i].current_pct /\ ds[i].current_pct < hi})
      IN /\ doc.fleet_status.total_devices = Len(ds)
         /\ doc.fleet_status.healthy = n(60, 1000)
         /\ doc.fleet_status.warning = n(30, 60)
         /\ doc.fleet_status.low = n(15, 30)
         /\ doc.fleet_status.critical = n(-1000, 15)
         /\ doc.fleet_status.active_alerts = Len(doc.active_alerts)
====
